---- MODULE Spec2Model ----
(***************************************************************************)
(* Model of the path-lookup analysis core of ipf_pathlookup_analysis:      *)
(*   modules/utilis.py      display_severity, remove_vdevice_id,           *)
(*                          replace_vdevice_id                             *)
(*   modules/pathLookup.py  follow_path_first_option, get_edge_details,    *)
(*                          build_graph, remove_exclusion_protocol         *)
(*                                                                         *)
(* Python strings are modelled as sequences of one-character strings, so   *)
(* that split, replace, "in" and startswith are computed, not assumed.     *)
(* Python's None is the one-element sequence None, which no character      *)
(* string can equal (its element is not a single character).               *)
(***************************************************************************)
EXTENDS Integers, Sequences, FiniteSets, TLC

VARIABLES
    pathlookup_edges,   \* follow_path_first_option: the edges dict (keys in insertion order, key -> edge)
    pc,                 \* position of the running function
    first_path_edges,   \* follow_path_first_option: the accumulated path
    next_edge_id,       \* follow_path_first_option: loop variable (None ends the loop)
    prev_next_edge_id,  \* follow_path_first_option: the predecessor's key
    returned,           \* the value handed back to the caller
    raised,             \* the exception that left the function ("" for none)
    path,               \* display_path: the path to display
    pathlookup_decisions, \* display_path: the decisions dict (device id -> traces)
    zonefw_interfaces,  \* display_path: the zone firewall interfaces, or None
    row,                \* build_graph: rows of the path already processed
    output_list,        \* build_graph: the accumulated records
    hops,               \* the hops whose records make graph_list (input of the filter)
    graph_list,         \* display_path: what build_graph returned
    l2_exclusion,       \* display_path: the flag
    displayed,          \* display_path: the list handed to the renderer
    traces,             \* get_edge_details: the traces matched for a hop
    protocol_info,      \* get_edge_details: the protocol label
    security_info,      \* get_edge_details: the security label
    pivot,              \* get_json_pathlookup: the pivot argument, or None
    pivot_json,         \* get_json_pathlookup: the result of the pivot lookup
    entry_point,        \* get_json_pathlookup: what return_entry_point_pivot returned
    firstHopAlgorithm,  \* get_json_pathlookup: the first hop algorithm of the lookup
    calls,              \* the lookups sent to ipf_diagram.diagram_json, in order
    pivot_msg,          \* get_json_pathlookup: the message printed about the pivot
    arg_vdevice_id_name,    \* remove_vdevice_id: the argument of the call
    arg_prev_next_edge_dict \* replace_vdevice_id: the argument of the call

followVars == <<pathlookup_edges, first_path_edges, next_edge_id, prev_next_edge_id>>
displayVars == <<path, pathlookup_decisions, zonefw_interfaces, row, output_list,
                 hops, graph_list, l2_exclusion, displayed>>
detailVars == <<traces, protocol_info, security_info>>

pivotVars == <<pivot, pivot_json, entry_point, firstHopAlgorithm, calls, pivot_msg>>

codecVars == <<arg_vdevice_id_name, arg_prev_next_edge_dict>>

vars == <<followVars, displayVars, detailVars, pivotVars, codecVars, pc, returned, raised>>

-----------------------------------------------------------------------------
(* Python values *)

None == <<"None">>

\* A call's outcome: a value, or an exception that propagates.
Ok(v) == [exc |-> "", val |-> v]
Raise(e) == [exc |-> e, val |-> None]

NoReturn == [kind |-> "pending", val |-> <<>>]
ReturnNone == [kind |-> "None", val |-> <<>>]
ReturnList(l) == [kind |-> "list", val |-> l]

-----------------------------------------------------------------------------
(* Python str operations on character sequences *)

Min(S) == CHOOSE x \in S : \A y \in S : x <= y

\* s[i:i+len(sub)] == sub
MatchAt(s, sub, i) ==
    /\ i >= 1
    /\ i + Len(sub) - 1 <= Len(s)
    /\ SubSeq(s, i, i + Len(sub) - 1) = sub

\* str.find from position i (1-based); 0 when sub does not occur
Find(s, sub, i) ==
    LET hits == {j \in i..(Len(s) - Len(sub) + 1) : MatchAt(s, sub, j)}
    IN  IF hits = {} THEN 0 ELSE Min(hits)

\* sub in s
Contains(s, sub) == Find(s, sub, 1) # 0

\* s.startswith(p)
StartsWith(s, p) == MatchAt(s, p, 1)

\* The recursive operators below take their string through a bound variable
\* (v \in {s}), so that the argument is evaluated once, as a Python call does.

\* s.split(sep), sep non-empty: left to right, non-overlapping
RECURSIVE Split(_, _)
SplitValue(v, sep) ==
    LET i == Find(v, sep, 1)
    IN  IF i = 0
        THEN <<v>>
        ELSE <<SubSeq(v, 1, i - 1)>> \o Split(SubSeq(v, i + Len(sep), Len(v)), sep)

Split(s, sep) == CHOOSE r \in {SplitValue(v, sep) : v \in {s}} : TRUE

\* s.replace(old, new), old non-empty: every non-overlapping occurrence
RECURSIVE Replace(_, _, _)
ReplaceValue(v, old, new) ==
    LET i == Find(v, old, 1)
    IN  IF i = 0
        THEN v
        ELSE SubSeq(v, 1, i - 1) \o new \o Replace(SubSeq(v, i + Len(old), Len(v)), old, new)

Replace(s, old, new) == CHOOSE r \in {ReplaceValue(v, old, new) : v \in {s}} : TRUE

\* sep.join(parts)
RECURSIVE Join(_, _)
Join(sep, parts) ==
    IF Len(parts) = 0 THEN <<>>
    ELSE IF Len(parts) = 1 THEN parts[1]
    ELSE parts[1] \o sep \o Join(sep, Tail(parts))

BANG == <<"!">>
AT == <<"@">>
DASHDASH == <<"-", "-">>

-----------------------------------------------------------------------------
(* modules/utilis.py *)

\* replace_vdevice_id(prev_next_edge_dict)
replace_vdevice_id(prev_next_edge_dict) ==
    LET next_id == prev_next_edge_dict.nextEdgeIds[1]
        device_id == Split(next_id, AT)[1]
        parts == Split(prev_next_edge_dict.id, device_id \o BANG)
        hostname == Split(parts[2], AT)[1]
    IN  IF Len(Split(next_id, BANG)) # 1 THEN Ok(next_id)
        ELSE IF device_id # <<>>
        THEN IF Len(parts) < 2 THEN Raise("IndexError")
             ELSE Ok(Replace(next_id, device_id, Join(BANG, <<device_id, hostname>>)))
        ELSE Ok(None)

-----------------------------------------------------------------------------
(* Edge ids and successor tokens the edges dict is drawn from *)

VDEVICE == <<"v", "D", "e", "v", "i", "c", "e", "/">>
SUFFIX0 == <<"#", "0">>
DROPPED == <<"d", "r", "o", "p", "p", "e", "d">>
ACCEPTED == <<"a", "c", "c", "e", "p", "t", "e", "d">>

\* deviceId!hostname@interface and deviceId@interface
ResolvedToken(n, iface) == VDEVICE \o <<n>> \o BANG \o <<"r", n>> \o AT \o <<"e", iface>>
UnresolvedToken(n, iface) == VDEVICE \o <<n>> \o AT \o <<"e", iface>>

\* vDevice/1!r1@e1--vDevice/2!r2@e2--#0
E1 == Join(DASHDASH, <<ResolvedToken("1", "1"), ResolvedToken("2", "2"), SUFFIX0>>)
\* vDevice/2!r2@e3--vDevice/3!r3@e4--#0
E2 == Join(DASHDASH, <<ResolvedToken("2", "3"), ResolvedToken("3", "4"), SUFFIX0>>)
\* vDevice/3!r3@e5--dropped--#0
E3 == Join(DASHDASH, <<ResolvedToken("3", "5"), DROPPED, SUFFIX0>>)
\* vDevice/3@e5--dropped--#0: E3 without its hostname
T3 == Join(DASHDASH, <<UnresolvedToken("3", "5"), DROPPED, SUFFIX0>>)
\* vDevice/2@e3--accepted--#0: resolves only against an id that holds vDevice/2!
T2 == Join(DASHDASH, <<UnresolvedToken("2", "3"), ACCEPTED, SUFFIX0>>)
\* vDevice/9!r9@e9--dropped--#0: carries its hostname, and is no key
T9 == Join(DASHDASH, <<ResolvedToken("9", "9"), DROPPED, SUFFIX0>>)

EdgeIds == {E1, E2, E3}
Tokens == EdgeIds \cup {T3, T2, T9}
AltTokens == {E2}

\* the longest nextEdgeIds list drawn
MaxNext == 2
\* the loop of follow_path_first_option is cut at this path length (a cycle never ends)
MaxPathLen == 5

Range(s) == {s[i] : i \in 1..Len(s)}

SeqsUpTo(S, n) == UNION {[1..k -> S] : k \in 0..n}

\* insertion orders of the edges dict: any keys, each once
KeyOrders == {ks \in SeqsUpTo(EdgeIds, Cardinality(EdgeIds)) :
                 \A i, j \in 1..Len(ks) : i # j => ks[i] # ks[j]}

\* nextEdgeIds: empty, or a first option followed by alternates
SuccLists == {<<>>} \cup
             {<<t>> \o alts : t \in Tokens, alts \in SeqsUpTo(AltTokens, MaxNext - 1)}

EdgesDict(ks, succ) ==
    [keys |-> ks,
     val |-> [k \in Range(ks) |-> [id |-> k, nextEdgeIds |-> succ[k]]]]

\* k in d
HasKey(d, k) == k \in DOMAIN d.val

\* the variables of the functions that are not running
FollowIdle ==
    /\ pathlookup_edges = EdgesDict(<<>>, <<>>)
    /\ first_path_edges = <<>>
    /\ next_edge_id = None
    /\ prev_next_edge_id = None

DisplayIdle ==
    /\ path = <<>>
    /\ pathlookup_decisions = <<>>
    /\ zonefw_interfaces = [given |-> FALSE, rows |-> <<>>]
    /\ row = 0
    /\ output_list = <<>>
    /\ hops = <<>>
    /\ graph_list = <<>>
    /\ l2_exclusion = FALSE
    /\ displayed = <<>>

DetailIdle ==
    /\ traces = <<>>
    /\ protocol_info = <<>>
    /\ security_info = <<>>

\* firstHopAlgorithm = {"type": "automatic"} (pathLookup.py line 81)
Automatic == [type |-> "automatic", entryPoints |-> <<>>]

CodecIdle ==
    /\ arg_vdevice_id_name = <<>>
    /\ arg_prev_next_edge_dict = [id |-> <<>>, nextEdgeIds |-> <<>>]

PivotIdle ==
    /\ pivot = None
    /\ pivot_json = [edges |-> EdgesDict(<<>>, <<>>), nodes |-> <<>>]
    /\ entry_point = [found |-> FALSE]
    /\ firstHopAlgorithm = Automatic
    /\ calls = <<>>
    /\ pivot_msg = ""

-----------------------------------------------------------------------------
(* modules/pathLookup.py: follow_path_first_option *)

\* the bug of following the last option instead of the first
FirstOption_Last(edge) ==
    IF Len(edge.nextEdgeIds) > 0 THEN edge.nextEdgeIds[Len(edge.nextEdgeIds)] ELSE None

\* first_edge["nextEdgeIds"][0] if len(...) > 0 else None
FirstOption(edge) == IF Len(edge.nextEdgeIds) > 0 THEN edge.nextEdgeIds[1] ELSE None

\* the bug of reading first_edge where the current edge is meant
NextOption_Stale(d, k) == IF HasKey(d, k) THEN FirstOption(d.val[d.keys[1]]) ELSE None

\* the conditional of lines 284-289
NextOption(d, k) == IF HasKey(d, k) THEN FirstOption(d.val[k]) ELSE None

FollowInit ==
    /\ \E ks \in KeyOrders : \E succ \in [Range(ks) -> SuccLists] :
          pathlookup_edges = EdgesDict(ks, succ)
    /\ pc = "call"
    /\ first_path_edges = <<>>
    /\ next_edge_id = None
    /\ prev_next_edge_id = None
    /\ returned = NoReturn
    /\ raised = ""
    /\ DisplayIdle
    /\ DetailIdle
    /\ PivotIdle
    /\ CodecIdle

\* line 263, empty dict: the function body ends without a return statement
FollowEmpty ==
    /\ pc = "call"
    /\ pathlookup_edges.keys = <<>>
    /\ returned' = ReturnNone
    /\ pc' = "done"
    /\ UNCHANGED <<pathlookup_edges, first_path_edges, next_edge_id, prev_next_edge_id, raised>>
    /\ UNCHANGED <<displayVars, detailVars>>
    /\ UNCHANGED pivotVars
    /\ UNCHANGED codecVars

\* lines 264-273
FollowFirst ==
    /\ pc = "call"
    /\ pathlookup_edges.keys # <<>>
    /\ LET first_edge == pathlookup_edges.val[pathlookup_edges.keys[1]]
       IN  /\ first_path_edges' = <<first_edge.id>>
           /\ next_edge_id' = FirstOption(first_edge)
           /\ prev_next_edge_id' = first_edge.id
    /\ pc' = "while"
    /\ UNCHANGED <<pathlookup_edges, returned, raised>>
    /\ UNCHANGED <<displayVars, detailVars>>
    /\ UNCHANGED pivotVars
    /\ UNCHANGED codecVars

\* one iteration of the while loop, lines 274-289
FollowStep ==
    /\ pc = "while"
    /\ next_edge_id # None
    /\ Len(first_path_edges) < MaxPathLen
    /\ LET new == IF HasKey(pathlookup_edges, next_edge_id)
                  THEN Ok(pathlookup_edges.val[next_edge_id].id)
                  ELSE replace_vdevice_id(pathlookup_edges.val[prev_next_edge_id])
           ok == new.exc = ""
       IN  /\ raised' = new.exc
           /\ pc' = IF ok THEN "while" ELSE "raised"
           /\ first_path_edges' = IF ok THEN Append(first_path_edges, new.val)
                                        ELSE first_path_edges
           /\ prev_next_edge_id' = IF ok THEN next_edge_id ELSE prev_next_edge_id
           /\ next_edge_id' = IF ok THEN NextOption(pathlookup_edges, next_edge_id)
                                    ELSE next_edge_id
    /\ UNCHANGED <<pathlookup_edges, returned>>
    /\ UNCHANGED <<displayVars, detailVars>>
    /\ UNCHANGED pivotVars
    /\ UNCHANGED codecVars

\* line 293
FollowReturn ==
    /\ pc = "while"
    /\ next_edge_id = None
    /\ returned' = ReturnList(first_path_edges)
    /\ pc' = "done"
    /\ UNCHANGED <<pathlookup_edges, first_path_edges, next_edge_id, prev_next_edge_id, raised>>
    /\ UNCHANGED <<displayVars, detailVars>>
    /\ UNCHANGED pivotVars
    /\ UNCHANGED codecVars

FollowNext == FollowEmpty \/ FollowFirst \/ FollowStep \/ FollowReturn

FollowSpec == FollowInit /\ [][FollowNext]_vars

-----------------------------------------------------------------------------
(* Properties of follow_path_first_option *)

\* the keys an edge names among its nextEdgeIds, at any index
KeySuccessors(d, k) == Range(d.val[k].nextEdgeIds) \cap DOMAIN d.val

RECURSIVE ReachableIn(_, _, _)
ReachableIn(d, S, n) ==
    IF n = 0 THEN S
    ELSE ReachableIn(d, S \cup UNION {KeySuccessors(d, k) : k \in S}, n - 1)

\* the nextEdgeIds relation has no cycle
Acyclic(d) ==
    \A k \in DOMAIN d.val :
        k \notin ReachableIn(d, KeySuccessors(d, k), Cardinality(DOMAIN d.val))

EmptyGraph == pathlookup_edges.keys = <<>>

\* C1: on an empty PathGraph follow_path_first_option returns the empty sequence
\* without raising, and a graph of one edge with no successors gives the
\* one-element sequence of that edge's id.
C1_EmptyGraphReturnsEmptySequence ==
    /\ (pc = "done" /\ EmptyGraph) => returned = ReturnList(<<>>)
    /\ (pc = "done" /\ Len(pathlookup_edges.keys) = 1
          /\ pathlookup_edges.val[pathlookup_edges.keys[1]].nextEdgeIds = <<>>)
       => returned = ReturnList(<<pathlookup_edges.keys[1]>>)
    /\ (EmptyGraph => raised = "")

\* C2: for an acyclic PathGraph follow_path_first_option terminates by returning:
\* no exception abandons the walk, and the loop, whose path grows with every
\* iteration, has no successor left to follow once the path is longer than the
\* graph has keys.
C2_AcyclicWalkReturns ==
    Acyclic(pathlookup_edges)
        => /\ pc # "raised"
           /\ (pc = "while" /\ Len(first_path_edges) > Len(pathlookup_edges.keys))
                 => next_edge_id = None

\* the walk has left the graph: the successor just taken is not a key
WalkedOffGraph ==
    /\ Len(first_path_edges) > 1
    /\ ~HasKey(pathlookup_edges, prev_next_edge_id)

\* C3 (as stated): for an acyclic PathGraph the returned sequence is no longer
\* than the number of keys of the graph, also when the walk ends on a successor
\* that is not a key.
C3_LengthAtMostKeys ==
    (Acyclic(pathlookup_edges) /\ returned.kind = "list")
        => Len(returned.val) <= Len(pathlookup_edges.keys)

\* C3 (amended): for an acyclic PathGraph the path is no longer than the number
\* of keys, plus one when the walk ended on a successor that is not a key.
C3_LengthAtMostKeysPlusSynthetic ==
    Acyclic(pathlookup_edges)
        => /\ Len(first_path_edges) <= Len(pathlookup_edges.keys)
                                         + (IF WalkedOffGraph THEN 1 ELSE 0)
           /\ returned.kind = "list" => returned.val = first_path_edges

C3_Witness ==
    /\ pc = "done"
    /\ Acyclic(pathlookup_edges)
    /\ returned.kind = "list"
    /\ Len(returned.val) = Len(pathlookup_edges.keys) + 1
    /\ Len(pathlookup_edges.keys) >= 2

\* the successor about to be followed is not a key of the graph
OffGraphPending ==
    /\ pc = "while"
    /\ next_edge_id # None
    /\ ~HasKey(pathlookup_edges, next_edge_id)

\* C16: when the successor at index 0 is not a key, exactly one element is
\* appended, the token replace_vdevice_id makes of it from the predecessor edge,
\* and the walk ends there; so only the last element of the path can be an
\* element that is not a key
C16_OffGraphSuccessorEndsThePath ==
    /\ OffGraphPending =>
          replace_vdevice_id(pathlookup_edges.val[prev_next_edge_id]).exc = ""
    /\ pc # "raised"
    /\ WalkedOffGraph =>
          /\ next_edge_id = None
          /\ first_path_edges[Len(first_path_edges)] =
                replace_vdevice_id(
                   pathlookup_edges.val[first_path_edges[Len(first_path_edges) - 1]]).val
    /\ \A i \in 1..(Len(first_path_edges) - 1) :
          HasKey(pathlookup_edges, first_path_edges[i])

\* the successor the walk takes out of the edge keyed k
TakenFrom(k) == pathlookup_edges.val[k].nextEdgeIds[1]

\* C4 (as stated): the path starts with the first-inserted edge's id, and every
\* later element that is a key of the graph is nextEdgeIds[0] of the edge named
\* by the element before it.
C4_KeyElementsAreFirstOptions ==
    /\ Len(first_path_edges) > 0 => first_path_edges[1] = pathlookup_edges.keys[1]
    /\ \A i \in 2..Len(first_path_edges) :
          HasKey(pathlookup_edges, first_path_edges[i])
             => /\ HasKey(pathlookup_edges, first_path_edges[i - 1])
                /\ Len(pathlookup_edges.val[first_path_edges[i - 1]].nextEdgeIds) > 0
                /\ first_path_edges[i] = TakenFrom(first_path_edges[i - 1])

\* C4 (amended): the path starts with the first-inserted edge's id, and every
\* later element comes from nextEdgeIds[0] of the edge named by the element
\* before it: that successor itself when it is a key of the graph, and otherwise
\* the token replace_vdevice_id makes of it, which ends the path (and may itself
\* spell a key). A successor at index 1 or higher is never followed.
C4_ElementsComeFromFirstOptions ==
    /\ Len(first_path_edges) > 0 => first_path_edges[1] = pathlookup_edges.keys[1]
    /\ \A i \in 2..Len(first_path_edges) :
          /\ HasKey(pathlookup_edges, first_path_edges[i - 1])
          /\ Len(pathlookup_edges.val[first_path_edges[i - 1]].nextEdgeIds) > 0
          /\ IF HasKey(pathlookup_edges, TakenFrom(first_path_edges[i - 1]))
             THEN first_path_edges[i] = TakenFrom(first_path_edges[i - 1])
             ELSE /\ i = Len(first_path_edges)
                  /\ first_path_edges[i]
                       = replace_vdevice_id(pathlookup_edges.val[first_path_edges[i - 1]]).val
    /\ returned.kind = "list" => returned.val = first_path_edges

\* a returned path of three elements through an edge that offers an alternate
C4_Witness ==
    /\ pc = "done"
    /\ returned.kind = "list"
    /\ Len(returned.val) = 3
    /\ \E i \in 1..2 :
          LET next_ids == pathlookup_edges.val[returned.val[i]].nextEdgeIds
          IN  Len(next_ids) > 1 /\ next_ids[2] # next_ids[1]

\* the text before the first "@" of a token
DeviceIdOf(token) == Split(token, AT)[1]

\* the loop is about to resolve a successor that is no key, carries no hostname,
\* and whose device id is not spelled "deviceId!" in the predecessor's id
UnresolvablePending ==
    /\ pc \in {"while", "raised"}
    /\ next_edge_id # None
    /\ ~HasKey(pathlookup_edges, next_edge_id)
    /\ ~Contains(next_edge_id, BANG)
    /\ ~Contains(prev_next_edge_id, DeviceIdOf(next_edge_id) \o BANG)

\* C5: replace_vdevice_id returns such a token unchanged and raises nothing, so
\* the linearization that called it goes on to return.
C5_UnresolvableTokenReturnedUnchanged ==
    UnresolvablePending
        => /\ replace_vdevice_id(pathlookup_edges.val[prev_next_edge_id]) = Ok(next_edge_id)
           /\ pc # "raised"

-----------------------------------------------------------------------------
(* modules/pathLookup.py: constants, and modules/utilis.py: display_severity *)

VXLAN == <<"v", "x", "l", "a", "n">>
CAPWAP == <<"c", "a", "p", "w", "a", "p">>
GRE == <<"g", "r", "e">>
ESP == <<"e", "s", "p">>
MPLS == <<"m", "p", "l", "s">>
IP == <<"i", "p">>
FP == <<"f", "p">>
L2 == <<"l", "2">>
NA == <<"n", "/", "a">>

EVENT_HEADER_TYPE == <<VXLAN, CAPWAP, GRE, ESP, MPLS, IP, FP>>
L2_EXCLUSION_PROTOCOL == <<L2, FP>>
CHAIN_SWITCHING == <<"s", "w", "i", "t", "c", "h", "i", "n", "g", "-", "n", "e", "x", "t", "h", "o", "p">>
SECURITY == <<"s", "e", "c", "u", "r", "i", "t", "y">>

\* "sep".join of display fields: " | "
BAR == <<" ", "|", " ">>

\* the one-character severity icons, named by their code points
GREEN_TICK == <<"U+2705">>
BLUE_BALL == <<"U+1F535">>
AMBER_BALL == <<"U+1F7E0">>
RED_CROSS == <<"U+274C">>
QUESTION_MARK == <<"U+2753">>

\* display_severity(value)
display_severity(value) ==
    IF value = 0 THEN GREEN_TICK
    ELSE IF value = 10 THEN BLUE_BALL
    ELSE IF value = 20 THEN AMBER_BALL
    ELSE IF value = 30 THEN RED_CROSS
    ELSE QUESTION_MARK

-----------------------------------------------------------------------------
(* modules/pathLookup.py: the functions nested in get_edge_details.          *)
(* traces is a list of traces, a trace a list of steps (trace_detail), a     *)
(* step a dict with "chain" and "events", an event a dict: a record whose    *)
(* DOMAIN holds the keys that are present.                                    *)

\* event.get(key, "")
Get(event, key) == IF key \in DOMAIN event THEN event[key] ELSE <<>>

RECURSIVE Concat(_)
Concat(lists) == IF lists = <<>> THEN <<>> ELSE Head(lists) \o Concat(Tail(lists))

\* for trace in traces for trace_detail in trace
AllSteps(trcs) == Concat(trcs)

\* ... for event in trace_detail["events"]
AllEvents(trcs) == Concat([i \in 1..Len(AllSteps(trcs)) |-> AllSteps(trcs)[i].events])

\* x in list
InList(x, list) == \E i \in 1..Len(list) : list[i] = x

\* the bug of testing the header types before the switching chain
get_protocol_traces_HeaderFirst(trcs) ==
    LET list_header_type == [i \in 1..Len(AllEvents(trcs)) |->
                                Get(AllEvents(trcs)[i], "headerType")]
        hits == {i \in 1..Len(EVENT_HEADER_TYPE) :
                    InList(EVENT_HEADER_TYPE[i], list_header_type)}
    IN  IF hits # {} THEN EVENT_HEADER_TYPE[Min(hits)]
        ELSE IF InList(CHAIN_SWITCHING,
                       [i \in 1..Len(AllSteps(trcs)) |-> AllSteps(trcs)[i].chain])
        THEN L2
        ELSE NA

\* for headerType in EVENT_HEADER_TYPE: if headerType in list_header_type: return
RECURSIVE FirstHeaderType(_, _)
FirstHeaderType(types, list_header_type) ==
    IF types = <<>> THEN NA
    ELSE IF InList(Head(types), list_header_type) THEN Head(types)
    ELSE FirstHeaderType(Tail(types), list_header_type)

\* get_protocol_traces(traces)
get_protocol_traces(trcs) ==
    LET list_header_type == [i \in 1..Len(AllEvents(trcs)) |->
                                Get(AllEvents(trcs)[i], "headerType")]
    IN  IF InList(CHAIN_SWITCHING,
                  [i \in 1..Len(AllSteps(trcs)) |-> AllSteps(trcs)[i].chain])
        THEN L2
        ELSE FirstHeaderType(EVENT_HEADER_TYPE, list_header_type)

\* a string or a list that is neither None nor empty
Truthy(x) == x # None /\ x # <<>>

\* zonefw_interfaces: None, or the list of the rows of the zone firewall table
NoZoneTable == [given |-> FALSE, rows |-> <<>>]
ZoneTable(rows) == [given |-> TRUE, rows |-> rows]

\* if zonefw_interfaces:
ZoneTruthy(zonefw) == zonefw.given /\ zonefw.rows # <<>>

\* find_zonefw_interface(device, interface, zonefw_interfaces)
RECURSIVE find_zonefw_interface(_, _, _)
find_zonefw_interface(device, interface, zonefw) ==
    IF zonefw = <<>> THEN <<>>
    ELSE IF Head(zonefw).hostname = device /\ Head(zonefw).intName = interface
         THEN BAR \o Join(<<"/">>, Head(zonefw).zone)
         ELSE find_zonefw_interface(device, interface, Tail(zonefw))

\* get_security_event(event, security_info), with the enclosing function's
\* device_name, egress and zonefw_interfaces
get_security_event(event, info, device_name, egress, zonefw) ==
    IF info # <<>> THEN Ok(info)
    ELSE IF Contains(Get(event, "type"), SECURITY)
    THEN IF "severityInfo" \notin DOMAIN event THEN Raise("KeyError")
         ELSE IF "decidingPolicyName" \notin DOMAIN event THEN Raise("KeyError")
         ELSE Ok(display_severity(event.severityInfo.severity) \o BAR
                   \o event.decidingPolicyName
                   \o (IF ZoneTruthy(zonefw)
                       THEN find_zonefw_interface(device_name, egress, zonefw.rows)
                       ELSE <<>>))
    ELSE Ok(<<>>)

\* the three nested loops of get_security_traces over the events in order,
\* left as soon as security_info is set
RECURSIVE ScanSecurityEvents(_, _, _, _, _)
ScanSecurityEvents(events, info, device_name, egress, zonefw) ==
    IF events = <<>> THEN Ok(info)
    ELSE LET r == get_security_event(Head(events), info, device_name, egress, zonefw)
         IN  IF r.exc # "" THEN r
             ELSE IF r.val # <<>> THEN r
             ELSE ScanSecurityEvents(Tail(events), r.val, device_name, egress, zonefw)

\* get_security_traces(traces, security_info)
get_security_traces(trcs, info, device_name, egress, zonefw) ==
    ScanSecurityEvents(AllEvents(trcs), info, device_name, egress, zonefw)

-----------------------------------------------------------------------------
(* The classification of one hop's matched traces (get_edge_details, lines  *)
(* 430-432), on traces drawn from the events and chains below                *)

ETHERNET == <<"e", "t", "h", "e", "r", "n", "e", "t">>
FORWARDING == <<"f", "o", "r", "w", "a", "r", "d", "i", "n", "g">>
ROUTING_CHAIN == <<"r", "o", "u", "t", "i", "n", "g">>
SECURITY_CHECK == <<"s", "e", "c", "u", "r", "i", "t", "y", " ", "c", "h", "e", "c", "k">>
BLOCK_ALL == <<"b", "l", "o", "c", "k", "A", "l", "l">>

\* the most events drawn in one step
MaxEvents == 1

HeaderTypes == Range(EVENT_HEADER_TYPE) \cup {ETHERNET}

HeaderEvent(h) == [type |-> FORWARDING, headerType |-> h]
PlainEvent == [type |-> FORWARDING]
SecurityEvent(sev, policy) ==
    [type |-> SECURITY_CHECK, severityInfo |-> [severity |-> sev],
     decidingPolicyName |-> policy]

PERMIT_ALL == <<"p", "e", "r", "m", "i", "t", "A", "l", "l">>

\* security events in which an optional field of the event is absent
SecurityEventNoSeverity == [type |-> SECURITY_CHECK, decidingPolicyName |-> BLOCK_ALL]
SecurityEventNoPolicy == [type |-> SECURITY_CHECK, severityInfo |-> [severity |-> 30]]

\* blocking, clear, a severity outside 0, 10, 20, 30, and the two incomplete ones
SecurityEvents == {SecurityEvent(30, BLOCK_ALL), SecurityEvent(0, PERMIT_ALL),
                   SecurityEvent(40, BLOCK_ALL),
                   SecurityEventNoSeverity, SecurityEventNoPolicy}

Events == {HeaderEvent(h) : h \in HeaderTypes} \cup {PlainEvent} \cup SecurityEvents

Steps == [chain : {CHAIN_SWITCHING, ROUTING_CHAIN}, events : SeqsUpTo(Events, MaxEvents)]

\* no trace, an empty trace, one step, two steps of one trace, two traces of one step
TraceLists == {<<>>, <<<<>>>>}
                \cup {<<<<a>>>> : a \in Steps}
                \cup {<<<<a, b>>>> : a, b \in Steps}
                \cup {<<<<a>>, <<b>>>> : a, b \in Steps}

DetailInit ==
    /\ traces \in TraceLists
    /\ pc = "call"
    /\ protocol_info = <<>>
    /\ security_info = <<>>
    /\ returned = NoReturn
    /\ raised = ""
    /\ FollowIdle
    /\ DisplayIdle
    /\ PivotIdle
    /\ CodecIdle

\* lines 430-432: security_info, then protocol_info, of the matched traces
Classify ==
    /\ pc = "call"
    /\ LET sec == get_security_traces(traces, <<>>, <<>>, <<>>, zonefw_interfaces)
       IN  /\ raised' = sec.exc
           /\ pc' = IF sec.exc = "" THEN "done" ELSE "raised"
           /\ security_info' = IF sec.exc = "" THEN sec.val ELSE security_info
           /\ protocol_info' = IF sec.exc = "" THEN get_protocol_traces(traces)
                               ELSE protocol_info
    /\ UNCHANGED <<traces, returned, followVars, displayVars>>
    /\ UNCHANGED pivotVars
    /\ UNCHANGED codecVars

DetailNext == Classify

DetailSpec == DetailInit /\ [][DetailNext]_vars

\* the priority list as the claim spells it
PriorityList == <<VXLAN, CAPWAP, GRE, ESP, MPLS, IP, FP>>

\* some step of the traces has this chain
SomeChain(trcs, chain) ==
    \E t \in 1..Len(trcs) : \E k \in 1..Len(trcs[t]) : trcs[t][k].chain = chain

\* some event of the traces has this headerType
SomeHeaderType(trcs, h) ==
    \E t \in 1..Len(trcs) : \E k \in 1..Len(trcs[t]) :
        \E e \in 1..Len(trcs[t][k].events) :
            /\ "headerType" \in DOMAIN trcs[t][k].events[e]
            /\ trcs[t][k].events[e].headerType = h

\* C10: the protocol label is "l2" if any step's chain is "switching-nexthop",
\* whatever the events; otherwise the earliest entry of (vxlan, capwap, gre, esp,
\* mpls, ip, fp) that is the headerType of some event; otherwise "n/a".
C10_ProtocolMatchesReference ==
    pc = "done" =>
        IF SomeChain(traces, CHAIN_SWITCHING) THEN protocol_info = L2
        ELSE IF \E i \in 1..7 : SomeHeaderType(traces, PriorityList[i])
        THEN \E i \in 1..7 :
                /\ protocol_info = PriorityList[i]
                /\ SomeHeaderType(traces, PriorityList[i])
                /\ \A j \in 1..(i - 1) : ~SomeHeaderType(traces, PriorityList[j])
        ELSE protocol_info = NA

\* an ip event is met before a gre event, no step switches, and the label is gre
C10_Witness ==
    /\ pc = "done"
    /\ ~SomeChain(traces, CHAIN_SWITCHING)
    /\ Len(AllEvents(traces)) = 2
    /\ AllEvents(traces)[1] = HeaderEvent(IP)
    /\ AllEvents(traces)[2] = HeaderEvent(GRE)
    /\ protocol_info = GRE

\* the first event of the traces, in their order, whose type holds "security";
\* 0 if there is none
FirstSecurityEvent(trcs) ==
    LET hits == {i \in 1..Len(AllEvents(trcs)) :
                    Contains(Get(AllEvents(trcs)[i], "type"), SECURITY)}
    IN  IF hits = {} THEN 0 ELSE Min(hits)

\* C11: the first event whose type holds "security" alone gives the security
\* label, and no error is raised: the label holds the symbol of the severity of
\* that event (the red cross for 30, the question mark for a value outside 0,
\* 10, 20, 30) and its decidingPolicyName, whatever security events follow;
\* without such an event there is no label
C11_FirstSecurityEventGivesLabel ==
    pc # "call" =>
       /\ pc = "done"
       /\ IF FirstSecurityEvent(traces) = 0 THEN security_info = <<>>
          ELSE LET e == AllEvents(traces)[FirstSecurityEvent(traces)]
               IN  /\ "severityInfo" \in DOMAIN e =>
                        /\ e.severityInfo.severity = 30 => Contains(security_info, RED_CROSS)
                        /\ e.severityInfo.severity = 0 => Contains(security_info, GREEN_TICK)
                        /\ e.severityInfo.severity \notin {0, 10, 20, 30}
                              => Contains(security_info, QUESTION_MARK)
                   /\ "decidingPolicyName" \in DOMAIN e =>
                        Contains(security_info, e.decidingPolicyName)

-----------------------------------------------------------------------------
(* modules/utilis.py: remove_vdevice_id, and modules/pathLookup.py:          *)
(* get_edge_details                                                           *)

\* remove_vdevice_id(vdevice_id_name): the name alone
remove_vdevice_id(vdevice_id_name) ==
    LET vdevice_id_name_split == Split(vdevice_id_name, BANG)
    IN  IF Len(vdevice_id_name_split) > 1 THEN vdevice_id_name_split[2]
        ELSE vdevice_id_name

\* the bug of handing back the pair as (device id, name)
remove_vdevice_id_with_id_Swapped(vdevice_id_name) ==
    LET vdevice_id_name_split == Split(vdevice_id_name, BANG)
    IN  IF Len(vdevice_id_name_split) > 1
        THEN <<vdevice_id_name_split[1], vdevice_id_name_split[2]>>
        ELSE <<None, vdevice_id_name>>

\* remove_vdevice_id(vdevice_id_name, return_device_id=True): (name, device id)
remove_vdevice_id_with_id(vdevice_id_name) ==
    LET vdevice_id_name_split == Split(vdevice_id_name, BANG)
    IN  IF Len(vdevice_id_name_split) > 1
        THEN <<vdevice_id_name_split[2], vdevice_id_name_split[1]>>
        ELSE <<vdevice_id_name, None>>

Digits == {"0", "1", "2", "3", "4", "5", "6", "7", "8", "9"}

\* the end of the run of digits that starts at position i
RECURSIVE DigitsEnd(_, _)
DigitsEnd(s, i) ==
    IF i + 1 <= Len(s) /\ s[i + 1] \in Digits THEN DigitsEnd(s, i + 1) ELSE i

\* re.search(r"vDevice/(\d+)", edge): match[0], or None
SearchVDevice(edge) ==
    LET starts == {i \in 1..Len(edge) :
                      /\ MatchAt(edge, VDEVICE, i)
                      /\ i + Len(VDEVICE) <= Len(edge)
                      /\ edge[i + Len(VDEVICE)] \in Digits}
    IN  IF starts = {} THEN None
        ELSE SubSeq(edge, Min(starts), DigitsEnd(edge, Min(starts) + Len(VDEVICE)))

\* the traces of the records that match on sourcePacketId, or else on targetPacketId
\* (lines 421-429)
RECURSIVE TracesWhere(_, _, _)
TracesWhere(records, field, edge) ==
    IF records = <<>> THEN <<>>
    ELSE (IF Head(records)[field] = edge THEN <<Head(records).trace>> ELSE <<>>)
            \o TracesWhere(Tail(records), field, edge)

\* the bug of keeping the first matching record alone
MatchedTraces_FirstOnly(records, edge) ==
    IF TracesWhere(records, "sourcePacketId", edge) # <<>>
    THEN <<Head(TracesWhere(records, "sourcePacketId", edge))>>
    ELSE IF TracesWhere(records, "targetPacketId", edge) # <<>>
    THEN <<Head(TracesWhere(records, "targetPacketId", edge))>>
    ELSE <<>>

MatchedTraces(records, edge) ==
    IF TracesWhere(records, "sourcePacketId", edge) # <<>>
    THEN TracesWhere(records, "sourcePacketId", edge)
    ELSE TracesWhere(records, "targetPacketId", edge)

\* the bug of leaving the security label out of the record
DeviceInfo_NoSecurity(protocol, security) == BAR \o protocol

\* lines 433-435: f" | {protocol_info}", and f" | {security_info}" if there is one
DeviceInfo(protocol, security) ==
    BAR \o protocol \o (IF security # <<>> THEN BAR \o security ELSE <<>>)

\* get_edge_details(pathlookup_decisions, device_name, device_id, edge, egress,
\*                  first_edge, zonefw_interfaces)
get_edge_details(decisions, device_name, device_id, edge, egress, first_edge, zonefw) ==
    LET id == IF first_edge /\ ~Truthy(device_id) /\ SearchVDevice(edge) # None
              THEN SearchVDevice(edge)
              ELSE device_id
    IN  IF ~Truthy(id) THEN Ok(<<>>)
        ELSE IF id \notin DOMAIN decisions THEN Raise("KeyError")
        ELSE LET trcs == MatchedTraces(decisions[id].traces, edge)
                 sec == get_security_traces(trcs, <<>>, device_name, egress, zonefw)
             IN  IF sec.exc # "" THEN sec
                 ELSE Ok(DeviceInfo(get_protocol_traces(trcs), sec.val))

-----------------------------------------------------------------------------
(* modules/pathLookup.py: display_path, build_graph *)

\* main calls display_path(details=True) (e2e_analysis.py line 309)
DETAILS == TRUE

DASH == <<"-">>
ZERO == <<"0">>

\* info.split("@")[0] if len(info.split("@")) > 1 else info
NameOf(info) == IF Len(Split(info, AT)) > 1 THEN Split(info, AT)[1] ELSE info

\* the bug of showing no interface at all
IfaceOf_Dash(info) == DASH

\* info.split("@")[1] if len(info.split("@")) > 1 else "-"
IfaceOf(info) == IF Len(Split(info, AT)) > 1 THEN Split(info, AT)[2] ELSE DASH

\* f"{a} | {b} | {c}"
Line(a, b, c) == a \o BAR \o b \o BAR \o c

\* lines 545-549: (dst_info, dst_device_id) of an edge id
DstInfo(edge) ==
    LET components == Split(edge, DASHDASH)
    IN  IF Len(components) > 1 THEN remove_vdevice_id_with_id(components[2])
        ELSE <<ZERO, ZERO>>

\* lines 535-537: (src_info, src_device_id) of an edge id
SrcInfo(edge) == remove_vdevice_id_with_id(Split(edge, DASHDASH)[1])

\* One iteration of build_graph's loop, for row r (counted from 1): the records
\* it appends to output_list, and the exception that ends it, if any.
BuildRowOutcome(p, r, decisions, zonefw, details) ==
    IF p[r] = None THEN [exc |-> "AttributeError", entries |-> <<>>]
    ELSE
    LET edge == p[r]
        src == SrcInfo(edge)
        src_device_name == NameOf(src[1])
        src_egress == IfaceOf(src[1])
        dst == DstInfo(edge)
        dst_device_name == NameOf(dst[1])
        ingress_iface == IfaceOf(dst[1])
        start_details == get_edge_details(decisions, src_device_name, src[2], edge,
                                          src_egress, TRUE, zonefw)
        start == IF r # 1 THEN <<>>
                 ELSE <<Line(DASH, src_device_name, src_egress) \o start_details.val>>
        last == r = Len(p)
        next_src_info == remove_vdevice_id(Split(p[r + 1], DASHDASH)[1])
        egress_iface == IF last THEN src_egress ELSE IfaceOf(next_src_info)
        device_info == IF last THEN Line(ingress_iface, dst_device_name, DASH)
                       ELSE Line(ingress_iface, dst_device_name, egress_iface)
        device_details == IF details
                          THEN get_edge_details(decisions, dst_device_name, dst[2], edge,
                                                egress_iface, FALSE, zonefw)
                          ELSE Ok(<<>>)
    IN  IF r = 1 /\ start_details.exc # ""
        THEN [exc |-> start_details.exc, entries |-> <<>>]
        ELSE IF ~last /\ p[r + 1] = None
        THEN [exc |-> "AttributeError", entries |-> start]
        ELSE IF device_details.exc # ""
        THEN [exc |-> device_details.exc, entries |-> start]
        ELSE [exc |-> "", entries |-> Append(start, device_info \o device_details.val)]

\* the placeholder of line 510
Placeholder(exclusion) ==
    <<".", ".", ".", " ", "|", " ", ".", ".", ".">> \o exclusion \o <<" ", "s", "k", "i", "p", "p", "e", "d", ".", ".", ".", " ", "|", " ", ".", ".", ".", " ", "|", " ">> \o exclusion

L2_FP == <<"l", "2", "/", "f", "p">>
SPACE_BAR == <<" ", "|">>

\* the condition of lines 501-504, without its startswith part:
\* all(protocol not in entry for protocol in L2_EXCLUSION_PROTOCOL) or "security" in entry
NotExcluded(entry) ==
    \/ \A k \in 1..Len(L2_EXCLUSION_PROTOCOL) : ~Contains(entry, L2_EXCLUSION_PROTOCOL[k])
    \/ Contains(entry, SECURITY)

\* the loop of remove_exclusion_protocol from entry i on, result being built
RECURSIVE FilterFrom(_, _, _, _)
FilterFrom(list, i, result, exclusion) ==
    IF i > Len(list) THEN result
    ELSE IF 1 < i /\ i < Len(list)
    THEN IF NotExcluded(list[i]) /\ ~StartsWith(list[i], SPACE_BAR)
         THEN FilterFrom(list, i + 1, Append(result, list[i]), exclusion)
         ELSE IF ~StartsWith(list[i], SPACE_BAR)
                 /\ result[Len(result)] # Placeholder(exclusion)
         THEN FilterFrom(list, i + 1, Append(result, Placeholder(exclusion)), exclusion)
         ELSE FilterFrom(list, i + 1, result, exclusion)
    ELSE FilterFrom(list, i + 1, Append(result, list[i]), exclusion)

\* the bug of writing a placeholder for every elided entry
RECURSIVE PlaceholderPerEntry(_, _)
PlaceholderPerEntry(list, i) ==
    IF i > Len(list) THEN <<>>
    ELSE (IF 1 < i /\ i < Len(list) /\ ~NotExcluded(list[i])
          THEN <<Placeholder(L2_FP)>> ELSE <<list[i]>>)
            \o PlaceholderPerEntry(list, i + 1)

remove_exclusion_protocol_PerEntry(list, flag) == PlaceholderPerEntry(list, 1)

\* remove_exclusion_protocol(graph_list, l2_exclusion)
remove_exclusion_protocol(list, flag) ==
    FilterFrom(list, 1, <<>>, IF flag THEN L2_FP ELSE <<>>)

-----------------------------------------------------------------------------
(* e2e_analysis.py: main, from the edges dict to the displayed list          *)

DeviceId(n) == VDEVICE \o <<n>>

\* a switching step with a security event that blocks, and a routed ip step
TraceL2Security ==
    <<[chain |-> CHAIN_SWITCHING, events |-> <<SecurityEvent(30, BLOCK_ALL)>>]>>
TraceIp == <<[chain |-> ROUTING_CHAIN, events |-> <<HeaderEvent(IP)>>]>>

DecisionRecord(src, tgt, trace) ==
    [sourcePacketId |-> src, targetPacketId |-> tgt, trace |-> trace]

DecisionRecords == {DecisionRecord(E1, E2, TraceL2Security),
                    DecisionRecord(E2, E3, TraceIp),
                    DecisionRecord(E2, E1, TraceIp)}

\* the most records drawn in one device's "traces"
MaxRecords == 1

\* pathlookup["decisions"]: device 1 with no record or not in the table, devices
\* 2 and 3 with records or not in the table
DecisionTables ==
    {t \in UNION {[ds -> [traces : SeqsUpTo(DecisionRecords, MaxRecords)]] :
                     ds \in SUBSET {DeviceId("1"), DeviceId("2"), DeviceId("3")}} :
        DeviceId("1") \in DOMAIN t => t[DeviceId("1")].traces = <<>>}

DMZ == <<"d", "m", "z">>

\* zonefw_interfaces: None when the json comes from a file, else the table rows
ZoneTables == {NoZoneTable,
               ZoneTable(<<[hostname |-> <<"r", "2">>, intName |-> <<"e", "3">>,
                            zone |-> <<DMZ>>]>>)}

\* follow_path_first_option(pathlookup_edges) is called (line 302)
MainInit == FollowInit

\* lines 294-296: no edges and no pivot, the program exits
MainExit ==
    /\ pc = "call"
    /\ pathlookup_edges.keys = <<>>
    /\ pc' = "exit"
    /\ UNCHANGED <<followVars, displayVars, detailVars, returned, raised>>
    /\ UNCHANGED pivotVars
    /\ UNCHANGED codecVars

\* lines 306-314: the path is truthy, display_path(path_first_option, details=True,
\* pathlookup_decisions, zonefw_interfaces) starts build_graph; the linearizer's
\* locals and the edges dict are not read again
DisplayCall ==
    /\ pc = "done"
    /\ returned.kind = "list"
    /\ returned.val # <<>>
    /\ path' = returned.val
    /\ pathlookup_decisions' \in DecisionTables
    /\ zonefw_interfaces' \in ZoneTables
    /\ row' = 0
    /\ output_list' = <<>>
    /\ pc' = "build"
    /\ pathlookup_edges' = EdgesDict(<<>>, <<>>)
    /\ first_path_edges' = <<>>
    /\ next_edge_id' = None
    /\ prev_next_edge_id' = None
    /\ UNCHANGED <<hops, graph_list, l2_exclusion, displayed, detailVars, returned, raised>>
    /\ UNCHANGED pivotVars
    /\ UNCHANGED codecVars

\* lines 315-316: the path is None or empty, "No Path to display"
NoPath ==
    /\ pc = "done"
    /\ returned.kind = "None" \/ returned.val = <<>>
    /\ pc' = "exit"
    /\ UNCHANGED <<followVars, displayVars, detailVars, returned, raised>>
    /\ UNCHANGED pivotVars
    /\ UNCHANGED codecVars

\* one iteration of build_graph's loop, lines 532-604
BuildRow ==
    /\ pc = "build"
    /\ row < Len(path)
    /\ LET out == BuildRowOutcome(path, row + 1, pathlookup_decisions,
                                  zonefw_interfaces, DETAILS)
           ok == out.exc = ""
       IN  /\ raised' = out.exc
           /\ pc' = IF ok THEN "build" ELSE "raised"
           /\ output_list' = IF ok THEN output_list \o out.entries ELSE output_list
           /\ row' = IF ok THEN row + 1 ELSE row
    /\ UNCHANGED <<path, pathlookup_decisions, zonefw_interfaces, hops, graph_list,
                   l2_exclusion, displayed, followVars, detailVars, returned>>
    /\ UNCHANGED pivotVars
    /\ UNCHANGED codecVars

\* lines 606-608: graph_list = build_graph(path)
BuildReturn ==
    /\ pc = "build"
    /\ row = Len(path)
    /\ graph_list' = output_list
    /\ pc' = "display"
    /\ UNCHANGED <<path, pathlookup_decisions, zonefw_interfaces, row, output_list, hops,
                   l2_exclusion, displayed, followVars, detailVars, returned, raised>>
    /\ UNCHANGED pivotVars
    /\ UNCHANGED codecVars

\* lines 609-621: the list that is printed, with the l2_exclusion option or without
Display ==
    /\ pc = "display"
    /\ l2_exclusion' \in BOOLEAN
    /\ displayed' = IF l2_exclusion' THEN remove_exclusion_protocol(graph_list, l2_exclusion')
                    ELSE graph_list
    /\ pc' = "shown"
    /\ UNCHANGED <<path, pathlookup_decisions, zonefw_interfaces, row, output_list, hops,
                   graph_list, followVars, detailVars, returned, raised>>
    /\ UNCHANGED pivotVars
    /\ UNCHANGED codecVars

MainNext ==
    \/ MainExit
    \/ FollowNext
    \/ DisplayCall
    \/ NoPath
    \/ BuildRow
    \/ BuildReturn
    \/ Display

MainSpec == MainInit /\ [][MainNext]_vars

-----------------------------------------------------------------------------
(* remove_exclusion_protocol on the records of hops drawn from the table     *)
(* below, written as build_graph and get_edge_details write them             *)

SECURITY_IN == <<"s", "e", "c", "u", "r", "i", "t", "y", "-", "i", "n">>
L2SW == <<"l", "2", "s", "w">>

\* the security text get_security_event writes for a blocking event of a policy
SecurityText(policy) ==
    get_security_event(SecurityEvent(30, policy), <<>>, <<"r", "2">>, <<"e", "3">>,
                       NoZoneTable).val

Hop(name, protocol, security) ==
    [ingress |-> <<"e", "2">>, name |-> name, egress |-> <<"e", "3">>,
     protocol |-> protocol, security |-> security]

\* routed, switched, fabricpath, switched with a blocking security event (two
\* policy names), and routed by a device whose name holds "l2"
HopRecords == {Hop(<<"r", "2">>, IP, <<>>),
               Hop(<<"r", "2">>, L2, <<>>),
               Hop(<<"r", "2">>, FP, <<>>),
               Hop(<<"r", "2">>, L2, SecurityText(BLOCK_ALL)),
               Hop(<<"r", "2">>, L2, SecurityText(SECURITY_IN)),
               Hop(L2SW, IP, <<>>)}

\* the longest list of hops drawn
MaxHops == 5

\* lines 590 and 433-435
Render(h) == Line(h.ingress, h.name, h.egress) \o DeviceInfo(h.protocol, h.security)

\* graph_list = build_graph(path) has returned (line 608)
FilterInit ==
    /\ hops \in SeqsUpTo(HopRecords, MaxHops)
    /\ graph_list = [i \in 1..Len(hops) |-> Render(hops[i])]
    /\ pc = "display"
    /\ path = <<>>
    /\ pathlookup_decisions = <<>>
    /\ zonefw_interfaces = NoZoneTable
    /\ row = 0
    /\ output_list = <<>>
    /\ l2_exclusion = FALSE
    /\ displayed = <<>>
    /\ returned = NoReturn
    /\ raised = ""
    /\ FollowIdle
    /\ DetailIdle
    /\ PivotIdle
    /\ CodecIdle

FilterNext == Display

FilterSpec == FilterInit /\ [][FilterNext]_vars

-----------------------------------------------------------------------------
(* Properties of get_edge_details, build_graph and remove_exclusion_protocol *)

\* build_graph runs on the path, has raised or has returned
InBuild == path # <<>> /\ pc \in {"build", "raised", "display", "shown"}

\* the device id of the record that row r writes is given and has no entry in
\* pathlookup_decisions
MissingEntry(r) ==
    /\ Truthy(DstInfo(path[r])[2])
    /\ DstInfo(path[r])[2] \notin DOMAIN pathlookup_decisions

\* the same of the start record, written with the source of the first element
MissingStartEntry ==
    /\ Truthy(SrcInfo(path[1])[2])
    /\ SrcInfo(path[1])[2] \notin DOMAIN pathlookup_decisions

\* the record of row r with the protocol label n/a and no security label
NoTraceRecord(r) ==
    Line(IfaceOf(DstInfo(path[r])[1]), NameOf(DstInfo(path[r])[1]),
         IF r = Len(path) THEN DASH
         ELSE IfaceOf(remove_vdevice_id(Split(path[r + 1], DASHDASH)[1])))
      \o DeviceInfo(NA, <<>>)

\* C6: a hop whose device id has no entry in the decision table is treated as
\* a hop without trace: no exception is raised on it, and build_graph emits its
\* record, with the protocol label n/a and no security label
C6_MissingEntryIsNoTrace ==
    InBuild =>
       /\ pc = "raised" =>
             ~(MissingEntry(row + 1) \/ (row = 0 /\ MissingStartEntry))
       /\ \A r \in 1..row : MissingEntry(r) => output_list[r + 1] = NoTraceRecord(r)

\* the traces get_edge_details matches for the record that row r writes, when
\* its device has an entry
HopTraces(r) ==
    IF DstInfo(path[r])[2] \in DOMAIN pathlookup_decisions
    THEN MatchedTraces(pathlookup_decisions[DstInfo(path[r])[2]].traces, path[r])
    ELSE <<>>

\* some event of the traces is a security event
HasSecurityEvent(trcs) ==
    \E i \in 1..Len(AllEvents(trcs)) :
       Contains(Get(AllEvents(trcs)[i], "type"), SECURITY)

\* the edges dict E1 -> E2 -> E3, E1 first
IsChainE1E2E3 ==
    /\ pathlookup_edges.keys = <<E1, E2, E3>>
    /\ pathlookup_edges.val[E1].nextEdgeIds = <<E2>>
    /\ pathlookup_edges.val[E2].nextEdgeIds = <<E3>>
    /\ pathlookup_edges.val[E3].nextEdgeIds = <<>>

\* the linearizer's part of C7, and the security and zone part: the record of a
\* hop with a security event holds the severity and the policy of the event,
\* and nothing after them when no zone table is given
ChainIsLinearized ==
    (pc = "done" /\ IsChainE1E2E3) => returned = ReturnList(<<E1, E2, E3>>)

SecurityIsRecorded ==
    InBuild =>
       \A r \in 1..row :
          HasSecurityEvent(HopTraces(r)) =>
             /\ Contains(output_list[r + 1], BAR \o SecurityText(BLOCK_ALL))
             /\ zonefw_interfaces = NoZoneTable =>
                   output_list[r + 1] =
                      SubSeq(output_list[r + 1], 1,
                             Len(output_list[r + 1]) - Len(SecurityText(BLOCK_ALL)))
                        \o SecurityText(BLOCK_ALL)

\* C7 as the claim states it: E1 -> E2 -> E3 is linearized to [E1, E2, E3],
\* build_graph returns one record per element of the path, 3 for [E1, E2, E3],
\* and the record of a hop with a security block holds it, without zone when no
\* zone data is given
C7_OneRecordPerElement ==
    /\ ChainIsLinearized
    /\ pc \in {"display", "shown"} => Len(graph_list) = Len(path)
    /\ SecurityIsRecorded

\* C7, amended: E1 -> E2 -> E3 is linearized to [E1, E2, E3]; build_graph writes a
\* start record and then one record per element of the path, so every list it
\* returns holds one record more than the path has elements, 4 for [E1, E2, E3];
\* the record of a hop with a security block holds it, without zone when no zone
\* data is given
C7_StartRecordPlusOnePerElement ==
    /\ ChainIsLinearized
    /\ InBuild => Len(output_list) = (IF row = 0 THEN 0 ELSE row + 1)
    /\ pc \in {"display", "shown"} => Len(graph_list) = Len(path) + 1
    /\ SecurityIsRecorded

\* [E1, E2, E3] is built with the security block at device 2 and no zone data:
\* 4 records, the second one with the blocking policy and no zone
C7_Witness ==
    /\ pc = "display"
    /\ path = <<E1, E2, E3>>
    /\ zonefw_interfaces = NoZoneTable
    /\ HasSecurityEvent(HopTraces(1))
    /\ Len(graph_list) = 4
    /\ graph_list[2] = Line(<<"e", "2">>, <<"r", "2">>, <<"e", "3">>)
                          \o DeviceInfo(L2, SecurityText(BLOCK_ALL))

\* the hop is classified L2/switching (l2 or fp) and has a security event
IsL2WithSecurity(h) == h.protocol \in Range(L2_EXCLUSION_PROTOCOL) /\ h.security # <<>>

\* C8: with l2_exclusion set, the record of an interior hop that is classified
\* L2/switching and has a security event is in the filtered list, as it was
\* written, whatever the name of its policy
C8_SecurityHopNeverElided ==
    (pc = "shown" /\ l2_exclusion) =>
       \A i \in 2..(Len(hops) - 1) :
          IsL2WithSecurity(hops[i]) => graph_list[i] \in Range(displayed)

\* C20: with l2_exclusion set, the record of an interior hop whose protocol is
\* neither l2 nor fp is in the filtered list, as it was written, whatever the
\* device, the interfaces and the policy its record names
C20_OtherProtocolNeverElided ==
    (pc = "shown" /\ l2_exclusion) =>
       \A i \in 2..(Len(hops) - 1) :
          hops[i].protocol \notin Range(L2_EXCLUSION_PROTOCOL)
             => graph_list[i] \in Range(displayed)

\* the filter keeps entry i: the first, the last, and the interior entries that
\* hold no excluded protocol, or hold "security"
Kept(i) == i = 1 \/ i = Len(graph_list) \/ NotExcluded(graph_list[i])

\* the entries that have a record in the filtered list: the kept ones, and the
\* first of each run of entries that are not kept
Shown == {i \in 1..Len(graph_list) : Kept(i) \/ Kept(i - 1)}

-----------------------------------------------------------------------------
(* build_graph on paths that hold edge ids without "--", "@" or "!", with a  *)
(* decision table that has an entry for every device                         *)

\* r1@e1: no "--" and no "!"
NO_DASHDASH == <<"r", "1", "@", "e", "1">>
\* vDevice/1!r1--vDevice/2!r2--#0: no "@"
NO_AT == Join(DASHDASH, <<DeviceId("1") \o BANG \o <<"r", "1">>,
                          DeviceId("2") \o BANG \o <<"r", "2">>, SUFFIX0>>)
\* r1@e1--r2@e2--#0: no "!"
NO_BANG == Join(DASHDASH, <<<<"r", "1", "@", "e", "1">>, <<"r", "2", "@", "e", "2">>, SUFFIX0>>)

BuildEdgeIds == {E1, E2, NO_DASHDASH, NO_AT, NO_BANG}

\* the longest path drawn
MaxBuildLen == 2

BuildPaths == SeqsUpTo(BuildEdgeIds, MaxBuildLen) \ {<<>>}

CompleteTables ==
    {t \in DecisionTables : DOMAIN t = {DeviceId("1"), DeviceId("2"), DeviceId("3")}}

\* display_path(path, details=True, pathlookup_decisions, zonefw_interfaces) is called
BuildInit ==
    /\ path \in BuildPaths
    /\ pathlookup_decisions \in CompleteTables
    /\ zonefw_interfaces \in ZoneTables
    /\ row = 0
    /\ output_list = <<>>
    /\ hops = <<>>
    /\ graph_list = <<>>
    /\ l2_exclusion = FALSE
    /\ displayed = <<>>
    /\ pc = "build"
    /\ returned = NoReturn
    /\ raised = ""
    /\ FollowIdle
    /\ DetailIdle
    /\ PivotIdle
    /\ CodecIdle

BuildNext ==
    \/ BuildRow
    \/ BuildReturn
    \/ Display

BuildSpec == BuildInit /\ [][BuildNext]_vars

\* C12: whatever separators an edge id of the path lacks, build_graph does not
\* raise, and the record of each edge shows its destination segment: the name
\* before "@", or the whole segment when there is no "@"
C12_BuildNeverRaises ==
    InBuild =>
       /\ pc # "raised"
       /\ \A r \in 1..row :
             Contains(output_list[r + 1], BAR \o NameOf(DstInfo(path[r])[1]) \o BAR)

\* the source of an edge id: the text before its first "--", without the device
\* id and the "!" that may lead it
SourceOf(edge) ==
    LET seg == SubSeq(edge, 1, IF Contains(edge, DASHDASH)
                               THEN Find(edge, DASHDASH, 1) - 1 ELSE Len(edge))
    IN  SubSeq(seg, Find(seg, BANG, 1) + 1, Len(seg))

\* the device named by the source of an edge id, and its interface ("-" if none)
SourceDevice(edge) ==
    IF Contains(SourceOf(edge), AT)
    THEN SubSeq(SourceOf(edge), 1, Find(SourceOf(edge), AT, 1) - 1)
    ELSE SourceOf(edge)
SourceInterface(edge) ==
    IF Contains(SourceOf(edge), AT)
    THEN SubSeq(SourceOf(edge), Find(SourceOf(edge), AT, 1) + 1, Len(SourceOf(edge)))
    ELSE DASH

\* the ingress, device and egress fields of a record: "ingress | device | egress..."
Ingress(record) == Split(record, BAR)[1]
Device(record) == Split(record, BAR)[2]
Egress(record) == Split(record, BAR)[3]

\* C19: in the list build_graph returns for a non-empty path, the first record
\* has "-" for ingress and names the source device of the first edge, the last
\* record has "-" for egress, and the egress of each record in between is the
\* source interface of the edge that follows the record's edge in the path
C19_StartEndAndEgressOfRecords ==
    (pc \in {"display", "shown"} /\ path # <<>>) =>
       /\ Len(graph_list) = Len(path) + 1
       /\ Ingress(graph_list[1]) = DASH
       /\ Device(graph_list[1]) = SourceDevice(path[1])
       /\ Egress(graph_list[Len(graph_list)]) = DASH
       /\ \A r \in 1..(Len(path) - 1) :
             Egress(graph_list[r + 1]) = SourceInterface(path[r + 1])

\* [E1, E2] is built: "- | r1 | e1...", "e2 | r2 | e3...", "e4 | r3 | -..."
C19_Witness ==
    /\ pc = "display"
    /\ path = <<E1, E2>>
    /\ Len(graph_list) = 3
    /\ StartsWith(graph_list[1], Line(DASH, <<"r", "1">>, <<"e", "1">>))
    /\ StartsWith(graph_list[2], Line(<<"e", "2">>, <<"r", "2">>, <<"e", "3">>))
    /\ StartsWith(graph_list[3], Line(<<"e", "4">>, <<"r", "3">>, DASH))

-----------------------------------------------------------------------------
(* modules/pivot.py: find_device_sn, return_entry_point_pivot, and           *)
(* modules/pathLookup.py: get_json_pathlookup                                *)

TRANSIT == <<"t", "r", "a", "n", "s", "i", "t">>
\* "--transit" (pivot.py line 68)
TRANSIT_MARKER == DASHDASH \o TRANSIT

\* return None, and return {"sn": ..., "iface": ..., "hostname": ...}
NoEntryPoint == [found |-> FALSE]
EntryPoint(sn, iface, hostname) ==
    [found |-> TRUE, sn |-> sn, iface |-> iface, hostname |-> hostname]

\* find_device_sn(device_id, pathlookup_nodes)
find_device_sn(device_id, pathlookup_nodes) ==
    IF device_id \in DOMAIN pathlookup_nodes THEN pathlookup_nodes[device_id].sn
    ELSE <<>>

\* the bug of taking the last edge with the marker
RECURSIVE return_entry_point_pivot_Last(_)
return_entry_point_pivot_Last(json) ==
    IF json.edges.keys = <<>> THEN NoEntryPoint
    ELSE LET n == Len(json.edges.keys)
             edge == json.edges.keys[n]
             edge_data == json.edges.val[edge]
         IN  IF Contains(edge, TRANSIT_MARKER)
             THEN EntryPoint(find_device_sn(edge_data.source, json.nodes),
                             edge_data.sourceIfaceName,
                             remove_vdevice_id(Split(edge, AT)[1]))
             ELSE return_entry_point_pivot_Last(
                     [json EXCEPT !.edges.keys = SubSeq(json.edges.keys, 1, n - 1)])

\* return_entry_point_pivot(pathlookup_json): the loop over edges.items()
RECURSIVE return_entry_point_pivot(_)
return_entry_point_pivot(json) ==
    IF json.edges.keys = <<>> THEN NoEntryPoint
    ELSE LET edge == Head(json.edges.keys)
             edge_data == json.edges.val[edge]
         IN  IF Contains(edge, TRANSIT_MARKER)
             THEN EntryPoint(find_device_sn(edge_data.source, json.nodes),
                             edge_data.sourceIfaceName,
                             remove_vdevice_id(Split(edge, AT)[1]))
             ELSE return_entry_point_pivot(
                     [json EXCEPT !.edges.keys = Tail(json.edges.keys)])

\* the bug of leaving the entry point out of the primary lookup
Algorithm_Automatic(ep) == Automatic

\* Algorithm(entryPoints=[entry_point])
Algorithm(ep) == [type |-> "userDefined", entryPoints |-> <<ep>>]

\* vDevice/1!r1@e1--transit--#0 and vDevice/2!r2@e3--transit--#0
TR1 == Join(DASHDASH, <<ResolvedToken("1", "1"), TRANSIT, SUFFIX0>>)
TR2 == Join(DASHDASH, <<ResolvedToken("2", "3"), TRANSIT, SUFFIX0>>)
\* vDevice/4!transit@e9--dropped--#0: a device named transit, and no marker
NAMED_TRANSIT == Join(DASHDASH, <<DeviceId("4") \o BANG \o TRANSIT \o AT \o <<"e", "9">>,
                                  DROPPED, SUFFIX0>>)

PivotEdgeIds == {TR1, TR2, E1, NAMED_TRANSIT}

\* the most edges drawn in the result of the pivot lookup
MaxPivotEdges == 3

\* edge_data: "source" is the device id of the key, "sourceIfaceName" the name of
\* its interface
PivotEdgeData(k) ==
    [source |-> Split(k, BANG)[1],
     sourceIfaceName |-> <<"E", "t", "h">> \o Split(Split(Split(k, DASHDASH)[1], AT)[2], <<"e">>)[2]]

SerialOf(device_id) == <<"S", "N">> \o SubSeq(device_id, Len(device_id), Len(device_id))

\* graphResult.graphData of the pivot lookup: edges in insertion order, each key
\* once, and nodes for some of the devices
PivotJsons ==
    {[edges |-> [keys |-> ks, val |-> [k \in Range(ks) |-> PivotEdgeData(k)]],
      nodes |-> [d \in ds |-> [sn |-> SerialOf(d)]]] :
        ks \in {q \in SeqsUpTo(PivotEdgeIds, MaxPivotEdges) :
                   \A i, j \in 1..Len(q) : i # j => q[i] # q[j]},
        ds \in SUBSET {DeviceId("1"), DeviceId("2")}}

SRC_IP == <<"1", "0", ".", "0", ".", "0", ".", "1">>
DST_IP == <<"1", "0", ".", "0", ".", "0", ".", "2">>
PIVOT_IP == <<"1", "0", ".", "0", ".", "0", ".", "9">>

\* the arguments of one ipf_diagram.diagram_json(uni), and the pivot argument of
\* the get_json_pathlookup that sends it
Lookup(src, dst, algorithm, pivot_arg) ==
    [startingPoint |-> src, destinationPoint |-> dst, firstHopAlgorithm |-> algorithm,
     pivot |-> pivot_arg]

\* get_json_pathlookup(src_ip, dst_ip, ..., pivot) is called: no pivot, an empty
\* one, or an address
PivotInit ==
    /\ pivot \in {None, <<>>, PIVOT_IP}
    /\ pivot_json = [edges |-> EdgesDict(<<>>, <<>>), nodes |-> <<>>]
    /\ entry_point = NoEntryPoint
    /\ firstHopAlgorithm = Automatic
    /\ calls = <<>>
    /\ pivot_msg = ""
    /\ pc = "call"
    /\ returned = NoReturn
    /\ raised = ""
    /\ FollowIdle
    /\ DisplayIdle
    /\ DetailIdle
    /\ CodecIdle

\* lines 89-104: the nested get_json_pathlookup(src_ip=pivot, dst_ip=src_ip) with
\* no pivot argument, which sends its lookup and returns the service's answer
PivotLookup ==
    /\ pc = "call"
    /\ Truthy(pivot)
    /\ calls' = Append(calls, Lookup(pivot, SRC_IP, Automatic, None))
    /\ pivot_json' \in PivotJsons
    /\ pc' = "pivot_result"
    /\ UNCHANGED <<pivot, entry_point, firstHopAlgorithm, pivot_msg>>
    /\ UNCHANGED <<followVars, displayVars, detailVars, returned, raised>>
    /\ UNCHANGED codecVars

\* lines 105-110
ResolveEntryPoint ==
    /\ pc = "pivot_result"
    /\ entry_point' = return_entry_point_pivot(pivot_json)
    /\ firstHopAlgorithm' = IF entry_point'.found THEN Algorithm(entry_point')
                            ELSE firstHopAlgorithm
    /\ pivot_msg' = IF entry_point'.found THEN "Info" ELSE "Warning"
    /\ pc' = "lookup"
    /\ UNCHANGED <<pivot, pivot_json, calls>>
    /\ UNCHANGED <<followVars, displayVars, detailVars, returned, raised>>
    /\ UNCHANGED codecVars

\* lines 112-133
PrimaryLookup ==
    /\ pc = "lookup" \/ (pc = "call" /\ ~Truthy(pivot))
    /\ calls' = Append(calls, Lookup(SRC_IP, DST_IP, firstHopAlgorithm, pivot))
    /\ pc' = "done"
    /\ UNCHANGED <<pivot, pivot_json, entry_point, firstHopAlgorithm, pivot_msg>>
    /\ UNCHANGED <<followVars, displayVars, detailVars, returned, raised>>
    /\ UNCHANGED codecVars

PivotNext ==
    \/ PivotLookup
    \/ ResolveEntryPoint
    \/ PrimaryLookup

PivotSpec == PivotInit /\ [][PivotNext]_vars

\* a step of get_json_pathlookup is taken whenever one can be
PivotFairSpec == PivotSpec /\ WF_vars(PivotNext)

\* the places of the keys that hold the marker
TransitKeys(json) ==
    {i \in 1..Len(json.edges.keys) : Contains(json.edges.keys[i], TRANSIT_MARKER)}

\* C13: the entry point is made of the first edge, in insertion order, whose id
\* holds the transit marker: its interface is the sourceIfaceName of that edge
\* and its serial the sn of the node of that edge's source; there is no entry
\* point if and only if no edge id holds the marker
C13_EntryPointIsFirstTransitEdge ==
    pc \in {"lookup", "done"} /\ Truthy(pivot) =>
       /\ entry_point.found <=> TransitKeys(pivot_json) # {}
       /\ entry_point.found =>
             LET edge_data ==
                    pivot_json.edges.val[pivot_json.edges.keys[Min(TransitKeys(pivot_json))]]
             IN  /\ entry_point.iface = edge_data.sourceIfaceName
                 /\ edge_data.source \in DOMAIN pivot_json.nodes =>
                       entry_point.sn = pivot_json.nodes[edge_data.source].sn

\* two edges hold the marker, the second-inserted one of device 1, the third of
\* device 2: the entry point is the one of device 1
C13_Witness ==
    /\ pc = "lookup"
    /\ pivot_json.edges.keys = <<E1, TR1, TR2>>
    /\ DeviceId("1") \in DOMAIN pivot_json.nodes
    /\ entry_point = EntryPoint(<<"S", "N", "1">>, <<"E", "t", "h", "1">>, <<"r", "1">>)

\* what C14 says of the lookups sent so far
LookupsInOrder ==
    /\ pc # "raised"
    /\ Len(calls) <= 2
    /\ pc = "done" =>
          IF Truthy(pivot)
          THEN /\ Len(calls) = 2
               /\ calls[1] = Lookup(pivot, SRC_IP, Automatic, None)
               /\ calls[2] = Lookup(SRC_IP, DST_IP,
                                    IF entry_point.found
                                    THEN [type |-> "userDefined",
                                          entryPoints |-> <<entry_point>>]
                                    ELSE [type |-> "automatic", entryPoints |-> <<>>],
                                    pivot)
               /\ ~entry_point.found => pivot_msg = "Warning"
          ELSE calls = <<Lookup(SRC_IP, DST_IP, Automatic, pivot)>>

\* C14: with a pivot, the lookup from the pivot to the source is sent first, with
\* no pivot of its own, and then the primary lookup is always sent, exactly once:
\* with the entry point when there is one, with the automatic algorithm and
\* after a warning when there is none; no more than two lookups are sent
C14_PivotThenPrimaryOnce == [](LookupsInOrder) /\ <>(pc = "done")

\* the pivot lookup found no transit edge: warning, and an automatic primary lookup
C14_Witness ==
    /\ pc = "done"
    /\ Truthy(pivot)
    /\ ~entry_point.found
    /\ pivot_msg = "Warning"
    /\ Len(calls) = 2
    /\ calls[2].firstHopAlgorithm = Automatic

-----------------------------------------------------------------------------
(* modules/utilis.py: remove_vdevice_id(vdevice_id_name, return_device_id=True) *)
(* on the strings drawn below                                                *)

D1_HOST1 == <<"D", "1", "!", "h", "o", "s", "t", "1">>
HOST1 == <<"h", "o", "s", "t", "1">>

\* the longest string drawn from the characters D, 1, !, h and @
MaxTokenLen == 3

DeviceTokens == SeqsUpTo({"D", "1", "!", "h", "@"}, MaxTokenLen) \cup {D1_HOST1, HOST1}

\* return (name, device id)
ReturnTuple(t) == [kind |-> "tuple", val |-> t]

DecodeInit ==
    /\ arg_vdevice_id_name \in DeviceTokens
    /\ arg_prev_next_edge_dict = [id |-> <<>>, nextEdgeIds |-> <<>>]
    /\ pc = "call"
    /\ returned = NoReturn
    /\ raised = ""
    /\ FollowIdle
    /\ DisplayIdle
    /\ DetailIdle
    /\ PivotIdle

\* remove_vdevice_id(vdevice_id_name, return_device_id=True)
Decode ==
    /\ pc = "call"
    /\ returned' = ReturnTuple(remove_vdevice_id_with_id(arg_vdevice_id_name))
    /\ pc' = "done"
    /\ UNCHANGED <<followVars, displayVars, detailVars, pivotVars, codecVars, raised>>

DecodeNext == Decode

DecodeSpec == DecodeInit /\ [][DecodeNext]_vars

\* the string holds "!" once
OneBang(s) == Cardinality({i \in 1..Len(s) : s[i] = "!"}) = 1

\* the resolved half of C15: of "D!h" the device id is D and the name h
ResolvedTokenIsDecoded ==
    (pc = "done" /\ OneBang(arg_vdevice_id_name)) =>
       LET i == Find(arg_vdevice_id_name, BANG, 1)
       IN  /\ returned.val[2] = SubSeq(arg_vdevice_id_name, 1, i - 1)
           /\ returned.val[1] = SubSeq(arg_vdevice_id_name, i + 1, Len(arg_vdevice_id_name))

\* C15 as the claim states it: "D1!host1" gives the device id "D1" and the
\* hostname "host1", and a string without device id, as "host1", gives a null
\* device id and a null hostname
C15_OpaqueTokenGivesNullHostname ==
    /\ ResolvedTokenIsDecoded
    /\ (pc = "done" /\ ~Contains(arg_vdevice_id_name, BANG)) =>
          /\ returned.val[2] = None
          /\ returned.val[1] = None

\* C15, amended: "D1!host1" gives the device id "D1" and the hostname "host1",
\* and a string without device id, as "host1", gives a null device id and, as
\* the name, the string itself
C15_OpaqueTokenIsItsOwnName ==
    /\ ResolvedTokenIsDecoded
    /\ (pc = "done" /\ ~Contains(arg_vdevice_id_name, BANG)) =>
          /\ returned.val[2] = None
          /\ returned.val[1] = arg_vdevice_id_name

\* "host1" is decoded to the name "host1" and no device id
C15_Witness ==
    /\ pc = "done"
    /\ arg_vdevice_id_name = HOST1
    /\ returned.val = <<HOST1, None>>

-----------------------------------------------------------------------------
(* get_edge_details, lines 420-432: the records of one device matched        *)
(* against one edge id, and the labels of what is matched                    *)

\* records of device 2 that name E1 or E2 as source and as target, with a routed
\* ip trace or a switched trace with a security block
CorrelatorRecords ==
    {DecisionRecord(src, tgt, trace) :
        src \in {E1, E2}, tgt \in {E1, E2}, trace \in {TraceIp, TraceL2Security}}

\* the most records drawn for the device
MaxCorrelatorRecords == 2

\* get_edge_details(pathlookup_decisions, device_id="vDevice/2", edge, ...) is called
CorrelateInit ==
    /\ path \in {<<E1>>, <<E2>>}
    /\ pathlookup_decisions \in
          [{DeviceId("2")} ->
             [traces : SeqsUpTo(CorrelatorRecords, MaxCorrelatorRecords)]]
    /\ zonefw_interfaces = NoZoneTable
    /\ row = 0
    /\ output_list = <<>>
    /\ hops = <<>>
    /\ graph_list = <<>>
    /\ l2_exclusion = FALSE
    /\ displayed = <<>>
    /\ pc = "match"
    /\ returned = NoReturn
    /\ raised = ""
    /\ FollowIdle
    /\ DetailIdle
    /\ PivotIdle
    /\ CodecIdle

\* lines 421-429: traces = [...sourcePacketId == edge] or [...targetPacketId == edge]
Match ==
    /\ pc = "match"
    /\ traces' = MatchedTraces(pathlookup_decisions[DeviceId("2")].traces, path[1])
    /\ pc' = "call"
    /\ UNCHANGED <<protocol_info, security_info, followVars, displayVars, pivotVars,
                   codecVars, returned, raised>>

CorrelateNext ==
    \/ Match
    \/ Classify

CorrelateSpec == CorrelateInit /\ [][CorrelateNext]_vars

\* the places of the device's records whose field is the edge id
RecordsWhere(field) ==
    {i \in 1..Len(pathlookup_decisions[DeviceId("2")].traces) :
        pathlookup_decisions[DeviceId("2")].traces[i][field] = path[1]}

\* the perspective used: the source one if a record matches on it, else the target one
ChosenRecords ==
    IF RecordsWhere("sourcePacketId") # {} THEN RecordsWhere("sourcePacketId")
    ELSE RecordsWhere("targetPacketId")

\* C17 as the claim states it: the records that match on sourcePacketId are
\* used, those that match on targetPacketId only when none matches on
\* sourcePacketId, and of the chosen ones the first in table order alone
C17_FirstMatchingRecordWins ==
    pc \in {"call", "done"} =>
       IF ChosenRecords = {} THEN traces = <<>>
       ELSE traces = <<pathlookup_decisions[DeviceId("2")].traces[Min(ChosenRecords)].trace>>

\* C17, amended: the records that match on sourcePacketId are used, those that
\* match on targetPacketId only when none matches on sourcePacketId, and of
\* the chosen perspective every matching record is used, in table order: the
\* labels are those of all their traces together
C17_AllMatchingRecordsAreUsed ==
    pc \in {"call", "done"} =>
       /\ Len(traces) = Cardinality(ChosenRecords)
       /\ \A i \in ChosenRecords :
             traces[Cardinality({j \in ChosenRecords : j <= i})] =
                pathlookup_decisions[DeviceId("2")].traces[i].trace
       /\ pc = "done" =>
             /\ protocol_info = get_protocol_traces(traces)
             /\ security_info = get_security_traces(traces, <<>>, <<>>, <<>>, NoZoneTable).val

\* two records match E2 on sourcePacketId, an ip one and then a switched one
\* with a security block: both are used, and the labels are l2 and the block
C17_Witness ==
    /\ pc = "done"
    /\ path = <<E2>>
    /\ pathlookup_decisions[DeviceId("2")].traces =
          <<DecisionRecord(E2, E1, TraceIp), DecisionRecord(E2, E1, TraceL2Security)>>
    /\ Len(traces) = 2
    /\ protocol_info = L2
    /\ security_info = SecurityText(BLOCK_ALL)

-----------------------------------------------------------------------------
(* modules/utilis.py: replace_vdevice_id on the predecessors and successor   *)
(* tokens drawn below                                                        *)

\* vDevice/a!ra@e1--vDevice/b!rb@e2--#0
Predecessors ==
    {Join(DASHDASH, <<ResolvedToken(a, "1"), ResolvedToken(b, "2"), SUFFIX0>>) :
        a, b \in {"1", "2", "3"}}

\* vDevice/n@e3--dropped--#0, vDevice/n@e3--accepted--#0, and
\* vDevice/n@e3--vDevice/n5@e9--#0, whose destination is a device whose id starts
\* with the id of the source; and tokens that hold their hostname
SuccessorTokens ==
    {Join(DASHDASH, <<UnresolvedToken(n, "3"), dst, SUFFIX0>>) :
        n \in {"1", "2", "3"}, dst \in {DROPPED, ACCEPTED}}
    \cup {Join(DASHDASH, <<UnresolvedToken(n, "3"),
                           VDEVICE \o <<n, "5">> \o AT \o <<"e", "9">>, SUFFIX0>>) :
             n \in {"1", "2", "3"}}
    \cup {E1, E2, E3, T9}

\* return next_edge_id, and return the new string
ReturnStr(v) == [kind |-> "str", val |-> v]

ResolveInit ==
    /\ arg_prev_next_edge_dict \in
          [id : Predecessors, nextEdgeIds : {<<t>> : t \in SuccessorTokens}]
    /\ arg_vdevice_id_name = <<>>
    /\ pc = "call"
    /\ returned = NoReturn
    /\ raised = ""
    /\ FollowIdle
    /\ DisplayIdle
    /\ DetailIdle
    /\ PivotIdle

\* replace_vdevice_id(prev_next_edge_dict)
Resolve ==
    /\ pc = "call"
    /\ LET out == replace_vdevice_id(arg_prev_next_edge_dict)
       IN  /\ raised' = out.exc
           /\ pc' = IF out.exc = "" THEN "done" ELSE "raised"
           /\ returned' = IF out.exc = "" THEN ReturnStr(out.val) ELSE returned
    /\ UNCHANGED <<followVars, displayVars, detailVars, pivotVars, codecVars>>

ResolveNext == Resolve

ResolveSpec == ResolveInit /\ [][ResolveNext]_vars

\* the successor token, and its device id: the text before its first "@"
SuccessorToken == arg_prev_next_edge_dict.nextEdgeIds[1]
SuccessorDevice == SubSeq(SuccessorToken, 1, Find(SuccessorToken, AT, 1) - 1)

\* where "D!" starts in the id of the predecessor (0 if nowhere), and the
\* hostname that follows it, up to the next "@"
DeviceInPredecessor == Find(arg_prev_next_edge_dict.id, SuccessorDevice \o BANG, 1)
HostnameInPredecessor ==
    LET from == DeviceInPredecessor + Len(SuccessorDevice) + 1
    IN  SubSeq(arg_prev_next_edge_dict.id, from,
               Find(arg_prev_next_edge_dict.id, AT, from) - 1)

\* C18: a successor token without hostname, whose device id D is in the id of
\* the predecessor as "D!h" followed by an interface, is returned with "D!h" in
\* the place of D and the rest of it, interface and suffix, as it was; a token
\* that holds a hostname is returned as it is
C18_HostnameSplicedRestUnchanged ==
    pc = "done" =>
       IF Contains(SuccessorToken, BANG) THEN returned.val = SuccessorToken
       ELSE (/\ Contains(SuccessorToken, AT)
             /\ DeviceInPredecessor # 0
             /\ Find(arg_prev_next_edge_dict.id, AT, DeviceInPredecessor) # 0)
            => returned.val =
                  SuccessorDevice \o BANG \o HostnameInPredecessor
                     \o SubSeq(SuccessorToken, Len(SuccessorDevice) + 1, Len(SuccessorToken))

====
